---- MODULE Spec2Model ----
(***************************************************************************)
(* Model of the form toolkit: the validation report of validate_form.py    *)
(* (leaf extraction, deduplication, ordering, cascade classification,      *)
(* rendering) and the 4.x -> 5.0 rewrite of migrate_forms.py.              *)
(*                                                                         *)
(* Text is modelled as a sequence of tokens (a token is a word or a single *)
(* punctuation character), so that substring and prefix tests of the code  *)
(* are tests on token sequences.  Formatted paths are real strings.        *)
(***************************************************************************)
EXTENDS Integers, Sequences, FiniteSets, TLC

VARIABLES
    raw,              \* what validator.iter_errors(form) yields, in engine order
    verbose,          \* the --verbose / -v flag
    pc,               \* position of validate_form.main: "start" | "done"
    errors,           \* top-level errors after the sort of line 91
    all_leaves,
    unique_leaves,
    cascade_indices,
    root_causes,
    cascades,
    out,              \* the lines printed to standard output, in order
    exit_code,        \* process exit status
    form,             \* migrate_forms: the input document
    migrated,         \* migrate_form(form)
    remigrated,       \* migrate_form(migrate_form(form))
    mpc               \* position of the migration run: "start" | "once" | "twice"

vars == <<raw, verbose, pc, errors, all_leaves, unique_leaves, cascade_indices,
          root_causes, cascades, out, exit_code, form, migrated, remigrated, mpc>>

vvars == <<raw, verbose, pc, errors, all_leaves, unique_leaves, cascade_indices,
           root_causes, cascades, out, exit_code>>

mvars == <<form, migrated, remigrated, mpc>>

(***************************************************************************)
(* Bounds.                                                                 *)
(***************************************************************************)
MaxNodes == 3

(***************************************************************************)
(* JSON values: [t |-> tag, v |-> payload].  A dict is a sequence of       *)
(* [key, val] entries with distinct keys (Python dicts keep insertion      *)
(* order); a string is a token sequence.                                   *)
(***************************************************************************)
JStr(toks) == [t |-> "str", v |-> toks]
JNum(n) == [t |-> "num", v |-> n]
JDict(items) == [t |-> "dict", v |-> items]
JList(items) == [t |-> "list", v |-> items]
None == [t |-> "none", v |-> 0]

Entry(k, x) == [key |-> k, val |-> x]

HasKey(items, k) == \E i \in 1..Len(items) : items[i].key = k

\* dict.get(k): the value stored under k, None when the key is absent
DictGet(items, k) ==
    IF HasKey(items, k)
    THEN items[CHOOSE i \in 1..Len(items) : items[i].key = k].val
    ELSE None

Min(S) == CHOOSE m \in S : \A n \in S : m <= n

(***************************************************************************)
(* Path segments: a string key or an integer index.                        *)
(***************************************************************************)
SInt(i) == [k |-> "int", n |-> i, s |-> ""]
SStr(x) == [k |-> "str", n |-> 0, s |-> x]

\* str(p) of a path segment
SegStr(p) == IF p.k = "int" THEN ToString(p.n) ELSE p.s

\* the keys that occur in paths, in code-point order
KeyOrder == <<"components", "layout">>

StrRank(x) == CHOOSE i \in 1..Len(KeyOrder) : KeyOrder[i] = x

\* p < q on two segments.  Paths of one document never hold a key and an
\* index at the same position under the same prefix, so the comparison of the
\* sort keys never meets a mixed pair.
SegLt(p, q) ==
    IF p.k = "int" /\ q.k = "int" THEN p.n < q.n
    ELSE IF p.k = "str" /\ q.k = "str" THEN StrRank(p.s) < StrRank(q.s)
    ELSE FALSE

\* the comparison stops at the end of the shorter path: a path and its
\* extensions compare equal
PathLtIgnoringLength(a, b) ==
    LET diff == {i \in 1..Min({Len(a), Len(b)}) : a[i] # b[i]}
    IN  diff # {} /\ SegLt(a[Min(diff)], b[Min(diff)])

\* list(a) < list(b): Python's lexicographic order on lists
PathLt(a, b) ==
    LET diff == {i \in 1..Min({Len(a), Len(b)}) : a[i] # b[i]}
    IN  IF diff = {} THEN Len(a) < Len(b)
        ELSE SegLt(a[Min(diff)], b[Min(diff)])

(***************************************************************************)
(* validate_form.py                                                        *)
(***************************************************************************)
RECURSIVE JoinSlash(_)
JoinSlash(p) ==
    IF Len(p) = 1 THEN SegStr(p[1])
    ELSE SegStr(p[1]) \o "/" \o JoinSlash(Tail(p))

format_path(error) ==
    IF error.absolute_path # <<>> THEN JoinSlash(error.absolute_path) ELSE "(root)"

RECURSIVE collect_leaf_errors(_)
RECURSIVE CollectAll(_)
\* without the test of the "if" validator
CollectKeepingIf(error) ==
    IF error.context = <<>> THEN <<error>> ELSE CollectAll(error.context)

collect_leaf_errors(error) ==
    IF error.validator = "if" THEN <<>>
    ELSE IF error.context = <<>> THEN <<error>>
    ELSE CollectAll(error.context)

\* the loop assigns instead of extending: the leaves of the last node win
CollectLastOnly(seq) ==
    IF seq = <<>> THEN <<>> ELSE collect_leaf_errors(seq[Len(seq)])

\* leaves = []; for sub in seq: leaves.extend(collect_leaf_errors(sub))
CollectAll(seq) ==
    IF seq = <<>> THEN <<>>
    ELSE collect_leaf_errors(Head(seq)) \o CollectAll(Tail(seq))

\* x is placed where it goes in sorted(seq, key=...)
InsertAsc(x, t) ==
    LET later == {j \in 1..Len(t) : PathLt(x.absolute_path, t[j].absolute_path)}
        pos == IF later = {} THEN Len(t) + 1 ELSE Min(later)
    IN  SubSeq(t, 1, pos - 1) \o <<x>> \o SubSeq(t, pos, Len(t))

\* sorted(seq, key=lambda e: list(e.absolute_path)): stable, ascending
SortAsc(seq) ==
    LET F[i \in 0..Len(seq)] == IF i = 0 THEN <<>> ELSE InsertAsc(seq[i], F[i - 1])
    IN  F[Len(seq)]

\* x is placed where it goes in seq.sort(key=..., reverse=True)
InsertDesc(x, t) ==
    LET later == {j \in 1..Len(t) : PathLt(t[j].absolute_path, x.absolute_path)}
        pos == IF later = {} THEN Len(t) + 1 ELSE Min(later)
    IN  SubSeq(t, 1, pos - 1) \o <<x>> \o SubSeq(t, pos, Len(t))

\* the sort without reverse=True
SortNotReversed(seq) == SortAsc(seq)

\* seq.sort(key=lambda e: list(e.absolute_path), reverse=True): stable, descending
SortDesc(seq) ==
    LET F[i \in 0..Len(seq)] == IF i = 0 THEN <<>> ELSE InsertDesc(seq[i], F[i - 1])
    IN  F[Len(seq)]

\* the path alone as key
DedupKeyPathOnly(leaf) == <<format_path(leaf)>>

\* the key of the deduplication
DedupKey(leaf) == <<format_path(leaf), leaf.message>>

Dedup(leaves) ==
    LET F[i \in 0..Len(leaves)] ==
            IF i = 0 THEN [seen |-> {}, unique |-> <<>>]
            ELSE LET key == DedupKey(leaves[i])
                     prev == F[i - 1]
                 IN  IF key \notin prev.seen
                     THEN [seen |-> prev.seen \cup {key},
                           unique |-> Append(prev.unique, leaves[i])]
                     ELSE prev
    IN  F[Len(leaves)].unique

CONTAINER_PROPS == {"components", "layout", "languageButton"}

\* f"'{p}'" in message
MentionsQuoted(message, p) ==
    \E i \in 1..(Len(message) - 2) :
        /\ message[i] = "'"
        /\ message[i + 1] = p
        /\ message[i + 2] = "'"

\* without the look at the message
IsCascadeAnyMessage(leaf) ==
    /\ leaf.validator = "unevaluatedProperties"
    /\ leaf.instance.t = "dict"
    /\ DictGet(leaf.instance.v, "type") \in {JStr(<<"container">>), JStr(<<"fieldset">>)}

IsCascade(leaf) ==
    /\ leaf.validator = "unevaluatedProperties"
    /\ leaf.instance.t = "dict"
    /\ DictGet(leaf.instance.v, "type") \in {JStr(<<"container">>), JStr(<<"fieldset">>)}
    /\ {p \in CONTAINER_PROPS : MentionsQuoted(leaf.message, p)} # {}

\* indices are 1-based here, 0-based in the code
CascadeIndices(leaves) == {i \in 1..Len(leaves) : IsCascade(leaves[i])}

SelectIdx(seq, keep) ==
    LET F[i \in 0..Len(seq)] ==
            IF i = 0 THEN <<>>
            ELSE IF i \in keep THEN Append(F[i - 1], seq[i]) ELSE F[i - 1]
    IN  F[Len(seq)]

\* One printed line.  kind tells which print statement produced it; n is the
\* count a header shows or the indent of a tree line; validator is not printed,
\* it records which node a line renders.
Line(kind, n, path, message, validator) ==
    [kind |-> kind, n |-> n, path |-> path, message |-> message, validator |-> validator]

RootLine(leaf) == Line("error", 0, format_path(leaf), leaf.message, leaf.validator)

RootLines(leaves) == [i \in 1..Len(leaves) |-> RootLine(leaves[i])]

RECURSIVE format_error_tree(_, _)
RECURSIVE FormatSubs(_, _)
format_error_tree(error, indent) ==
    <<Line("tree", indent, format_path(error), error.message, error.validator)>>
        \o FormatSubs(SortAsc(error.context), indent)

\* the loop over the sorted context: "if" children are skipped
FormatSubs(subs, indent) ==
    IF subs = <<>> THEN <<>>
    ELSE (IF Head(subs).validator = "if" THEN <<>>
          ELSE format_error_tree(Head(subs), indent + 1))
         \o FormatSubs(Tail(subs), indent)

RECURSIVE TreeDump(_)
TreeDump(errs) ==
    IF errs = <<>> THEN <<>>
    ELSE format_error_tree(Head(errs), 0)
         \o <<Line("blank", 0, "", <<>>, "")>>
         \o TreeDump(Tail(errs))

\* every deduplicated leaf is printed, cascade effects included
StandardReportAllLeaves(roots, cascs) ==
    <<Line("invalid", Len(roots), "", <<>>, "")>>
        \o RootLines(roots \o cascs)
        \o (IF cascs # <<>> THEN <<Line("cascade", Len(cascs), "", <<>>, "")>> ELSE <<>>)

\* lines 133-139: the header with the number of root causes, one line per root
\* cause, and the cascade note when there is a cascade
StandardReport(roots, cascs) ==
    <<Line("invalid", Len(roots), "", <<>>, "")>>
        \o RootLines(roots)
        \o (IF cascs # <<>> THEN <<Line("cascade", Len(cascs), "", <<>>, "")>> ELSE <<>>)

\* lines 141-145: the tree dump of the verbose flag
VerboseReport(errs, verb) ==
    IF verb THEN <<Line("tree_header", Len(errs), "", <<>>, "")>> \o TreeDump(errs)
    ELSE <<>>

\* the status follows the leaves instead of the top-level errors
ExitStatusByLeaves(errs) == IF CollectAll(errs) = <<>> THEN 0 ELSE 1

\* a plain return of main (line 95) leaves status 0, sys.exit(1) (line 147) status 1
ExitStatus(errs) == IF errs = <<>> THEN 0 ELSE 1

(***************************************************************************)
(* migrate_forms.py                                                        *)
(***************************************************************************)
LANGUAGE_CODES ==
    { "de", "en", "fr", "es", "it", "nl", "pt", "pl", "cs", "sk",
      "hu", "ro", "bg", "hr", "sl", "da", "sv", "no", "fi", "el",
      "tr", "ru", "uk", "ar", "zh", "ja", "ko" }

TRANSLATABLE_KEYS == {"label", "placeholder", "tooltip", "description", "title", "helpText"}

\* the old action names, and ACTION_RENAMES[old]
RenamedActions == {"printForm", "resetForm", "setData", "submitData", "validateData"}

ACTION_RENAMES ==
    [a \in RenamedActions |->
        CASE a = "printForm" -> "print"
          [] a = "resetForm" -> "reset"
          [] a = "setData" -> "setFormState"
          [] a = "submitData" -> "submit"
          [] a = "validateData" -> "validate"]

\* k.lower() for the keys of the model
Lower(k) ==
    CASE k = "DE" -> "de"
      [] k = "MULTI_LANGUAGE" -> "multi_language"
      [] k = "onChangeBufferTime" -> "onchangebuffertime"
      [] k = "requestName" -> "requestname"
      [] k = "dataUrl" -> "dataurl"
      [] k = "stateUrl" -> "stateurl"
      [] OTHER -> k

\* BINDING_RE.match(value), the pattern ^/(data|state)/. on a token sequence:
\* "/", the word data or state, "/", and one more character that is no newline
BindingMatch(toks) ==
    /\ Len(toks) >= 4
    /\ toks[1] = "/"
    /\ toks[2] \in {"data", "state"}
    /\ toks[3] = "/"
    /\ toks[4] # "\n"

\* value.startswith("${")
StartsWithDollarBrace(toks) == Len(toks) >= 2 /\ toks[1] = "$" /\ toks[2] = "{"

\* every key is a language code and every value a string (obj: the entries)
looks_like_multilang(obj) ==
    /\ Len(obj) > 0
    /\ \A i \in 1..Len(obj) : Lower(obj[i].key) \in LANGUAGE_CODES
    /\ \A i \in 1..Len(obj) : obj[i].val.t = "str"

\* obj is a dict value
wrap_multilang(obj) ==
    IF HasKey(obj.v, "MULTI_LANGUAGE") THEN obj
    ELSE IF looks_like_multilang(obj.v) THEN JDict(<<Entry("MULTI_LANGUAGE", obj)>>)
    ELSE obj

wrap_binding(value) ==
    IF value.t = "str" /\ BindingMatch(value.v) /\ ~StartsWithDollarBrace(value.v)
    THEN JStr(<<"$", "{">> \o value.v \o <<"}">>)
    ELSE value

\* migrated[k] = x: a key already present keeps its place and takes the new value
DictPut(items, k, x) ==
    IF HasKey(items, k)
    THEN [i \in 1..Len(items) |-> IF items[i].key = k THEN Entry(k, x) ELSE items[i]]
    ELSE Append(items, Entry(k, x))

\* lines 81-91: the key an entry of node is stored under
NewKey(node, key) ==
    IF key = "dataUrl" THEN "stateUrl"
    ELSE IF key = "requestName" THEN "action"
    ELSE IF key = "request" /\ HasKey(node, "requestName")
         THEN (IF HasKey(node, "payload") THEN key ELSE "payload")
    ELSE key

\* lines 100-106: the renames of action values and the wrapping of bindings
NewValue(new_key, value) ==
    LET renamed ==
            IF new_key = "action" /\ value.t = "str"
               /\ Len(value.v) = 1 /\ value.v[1] \in RenamedActions
            THEN JStr(<<ACTION_RENAMES[value.v[1]]>>)
            ELSE value
    IN  IF new_key \in {"value", "instancePath"} /\ renamed.t = "str"
        THEN wrap_binding(renamed)
        ELSE renamed

RECURSIVE migrate_node(_)
RECURSIVE MigrateItems(_, _, _)
migrate_node(node) ==
    IF node.t = "dict" THEN JDict(MigrateItems(node.v, 1, <<>>))
    ELSE IF node.t = "list" THEN JList([i \in 1..Len(node.v) |-> migrate_node(node.v[i])])
    ELSE node

\* the loop of lines 74-108 from entry i on; acc is the dict migrated so far
MigrateItems(items, i, acc) ==
    IF i > Len(items) THEN acc
    ELSE LET key == items[i].key
             value == items[i].val
             new_key == NewKey(items, key)
         IN  IF key = "onChangeBufferTime" THEN MigrateItems(items, i + 1, acc)
             ELSE IF new_key \in TRANSLATABLE_KEYS /\ value.t = "dict"
             THEN MigrateItems(items, i + 1,
                      DictPut(acc, new_key, migrate_node(wrap_multilang(value))))
             ELSE MigrateItems(items, i + 1,
                      DictPut(acc, new_key, migrate_node(NewValue(new_key, value))))

migrate_form(doc) == migrate_node(doc)

\* a == b on two JSON values: dicts compare as mappings, whatever the order of
\* their keys
RECURSIVE JsonEq(_, _)
JsonEq(a, b) ==
    IF a.t # b.t THEN FALSE
    ELSE IF a.t = "dict"
    THEN /\ Len(a.v) = Len(b.v)
         /\ \A i \in 1..Len(a.v) :
               /\ HasKey(b.v, a.v[i].key)
               /\ JsonEq(a.v[i].val, DictGet(b.v, a.v[i].key))
    ELSE IF a.t = "list"
    THEN /\ Len(a.v) = Len(b.v)
         /\ \A i \in 1..Len(a.v) : JsonEq(a.v[i], b.v[i])
    ELSE a = b

(***************************************************************************)
(* The error trees the engine can hand over.                               *)
(***************************************************************************)
Container == JDict(<<Entry("type", JStr(<<"container">>))>>)
Fieldset == JDict(<<Entry("type", JStr(<<"fieldset">>))>>)

\* (path, instance) pairs of one form document: the root container, a fieldset
\* among its components, and the root's layout (a string)
Locations ==
    { [path |-> <<>>, instance |-> Container],
      [path |-> <<SStr("components"), SInt(0)>>, instance |-> Fieldset],
      [path |-> <<SStr("layout")>>, instance |-> JStr(<<"grid">>)] }

\* a message that names a container property in quotes, and one that names it bare
Unexpected == <<"'", "components", "'", "was", "unexpected">>
Required == <<"'", "label", "'", "is", "required", "in", "components">>

\* (validator, message) pairs of the engine
Kinds ==
    { [validator |-> "if", message |-> Required],
      [validator |-> "required", message |-> Unexpected],
      [validator |-> "unevaluatedProperties", message |-> Unexpected],
      [validator |-> "unevaluatedProperties", message |-> Required] }

\* what one node carries apart from its context
Profiles == [kind : Kinds, loc : Locations]

Node(prof, ctx) ==
    [validator |-> prof.kind.validator, message |-> prof.kind.message,
     absolute_path |-> prof.loc.path, instance |-> prof.loc.instance, context |-> ctx]

\* Shapes(n): the forests of n unlabelled nodes; a tree is the sequence of its
\* children, a forest a sequence of trees
RECURSIVE Shapes(_)
Shapes(n) ==
    IF n = 0 THEN {<<>>}
    ELSE UNION { { <<kids>> \o rest : kids \in Shapes(k - 1), rest \in Shapes(n - k) } :
                 k \in 1..n }

RECURSIVE ShapeSize(_)
ShapeSize(sh) == IF sh = <<>> THEN 0 ELSE 1 + ShapeSize(Head(sh)) + ShapeSize(Tail(sh))

\* the forest of shape sh whose nodes, in preorder, carry f[off + 1], f[off + 2], ...
RECURSIVE Build(_, _, _)
Build(sh, f, off) ==
    IF sh = <<>> THEN <<>>
    ELSE <<Node(f[off + 1], Build(Head(sh), f, off + 1))>>
         \o Build(Tail(sh), f, off + 1 + ShapeSize(Head(sh)))

MIdle ==
    /\ form = None
    /\ migrated = None
    /\ remigrated = None
    /\ mpc = "idle"

Init ==
    /\ \E n \in 0..MaxNodes : \E sh \in Shapes(n) : \E f \in [1..n -> Profiles] :
           raw = Build(sh, f, 0)
    /\ verbose \in BOOLEAN
    /\ pc = "start"
    /\ errors = <<>>
    /\ all_leaves = <<>>
    /\ unique_leaves = <<>>
    /\ cascade_indices = {}
    /\ root_causes = <<>>
    /\ cascades = <<>>
    /\ out = <<>>
    /\ exit_code = 0
    /\ MIdle

\* main, lines 91-95: no error, "VALID" and a normal return
MainValid ==
    /\ pc = "start"
    /\ SortAsc(raw) = <<>>
    /\ errors' = SortAsc(raw)
    /\ out' = <<Line("valid", 0, "", <<>>, "")>>
    /\ exit_code' = ExitStatus(SortAsc(raw))
    /\ pc' = "done"
    /\ UNCHANGED <<raw, verbose, all_leaves, unique_leaves, cascade_indices,
                   root_causes, cascades>>
    /\ UNCHANGED mvars

\* main, lines 91-147: the report of an invalid document
MainInvalid ==
    /\ pc = "start"
    /\ SortAsc(raw) # <<>>
    /\ LET errs == SortAsc(raw)
           leaves == CollectAll(errs)
           uniq == SortDesc(Dedup(leaves))
           casc == CascadeIndices(uniq)
           roots == SelectIdx(uniq, (1..Len(uniq)) \ casc)
           cascs == SelectIdx(uniq, casc)
       IN  /\ errors' = errs
           /\ all_leaves' = leaves
           /\ unique_leaves' = uniq
           /\ cascade_indices' = casc
           /\ root_causes' = roots
           /\ cascades' = cascs
           /\ out' = StandardReport(roots, cascs) \o VerboseReport(errs, verbose)
           /\ exit_code' = ExitStatus(errs)
    /\ pc' = "done"
    /\ UNCHANGED <<raw, verbose>>
    /\ UNCHANGED mvars

Next == MainValid \/ MainInvalid

Spec == Init /\ [][Next]_vars

(***************************************************************************)
(* The documents handed to the migration.                                  *)
(***************************************************************************)
MaxEntries == 3

FormKeys ==
    { "label", "de", "MULTI_LANGUAGE", "onChangeBufferTime",
      "requestName", "request", "payload", "value", "dataUrl" }

\* the values of the entries that hold no further entries
FormLeaves ==
    { JStr(<<"text">>),
      JStr(<<"/", "data", "/", "x">>),
      JStr(<<"printForm">>),
      JNum(5),
      JList(<<JDict(<<Entry("de", JStr(<<"text">>))>>)>>),
      JDict(<<>>) }

FormProfiles == [key : FormKeys, leaf : FormLeaves]

\* the entries of shape sh (a forest: an entry with children holds a dict of
\* them), labelled in preorder by f[off + 1], f[off + 2], ...
RECURSIVE BuildEntries(_, _, _)
BuildEntries(sh, f, off) ==
    IF sh = <<>> THEN <<>>
    ELSE <<Entry(f[off + 1].key,
                 IF Head(sh) = <<>> THEN f[off + 1].leaf
                 ELSE JDict(BuildEntries(Head(sh), f, off + 1)))>>
         \o BuildEntries(Tail(sh), f, off + 1 + ShapeSize(Head(sh)))

\* the keys of every dict are distinct
RECURSIVE DistinctKeys(_)
DistinctKeys(x) ==
    IF x.t = "dict"
    THEN /\ \A i, j \in 1..Len(x.v) : x.v[i].key = x.v[j].key => i = j
         /\ \A i \in 1..Len(x.v) : DistinctKeys(x.v[i].val)
    ELSE IF x.t = "list" THEN \A i \in 1..Len(x.v) : DistinctKeys(x.v[i])
    ELSE TRUE

VIdle ==
    /\ raw = <<>>
    /\ verbose = FALSE
    /\ pc = "idle"
    /\ errors = <<>>
    /\ all_leaves = <<>>
    /\ unique_leaves = <<>>
    /\ cascade_indices = {}
    /\ root_causes = <<>>
    /\ cascades = <<>>
    /\ out = <<>>
    /\ exit_code = 0

InitMigrate ==
    /\ \E n \in 0..MaxEntries : \E sh \in Shapes(n) : \E f \in [1..n -> FormProfiles] :
           /\ form = JDict(BuildEntries(sh, f, 0))
           /\ DistinctKeys(form)
    /\ migrated = None
    /\ remigrated = None
    /\ mpc = "start"
    /\ VIdle

\* migrate_forms.main, line 142: the document is migrated
MigrateForm ==
    /\ mpc = "start"
    /\ migrated' = migrate_form(form)
    /\ mpc' = "once"
    /\ UNCHANGED <<form, remigrated>>
    /\ UNCHANGED vvars

\* the tool is run again on its own output
MigrateAgain ==
    /\ mpc = "once"
    /\ remigrated' = migrate_form(migrated)
    /\ mpc' = "twice"
    /\ UNCHANGED <<form, migrated>>
    /\ UNCHANGED vvars

NextMigrate == MigrateForm \/ MigrateAgain

SpecMigrate == InitMigrate /\ [][NextMigrate]_vars

(***************************************************************************)
(* Properties of the validation report.                                    *)
(***************************************************************************)
Done == pc = "done"

\* the nodes of a forest are addressed by positions: the index of a top-level
\* error followed by child indices
RECURSIVE Positions(_)
Positions(forest) ==
    UNION { {<<i>>} \cup {<<i>> \o p : p \in Positions(forest[i].context)} :
            i \in 1..Len(forest) }

RECURSIVE NodeAt(_, _)
NodeAt(forest, p) ==
    IF Len(p) = 1 THEN forest[p[1]] ELSE NodeAt(forest[p[1]].context, Tail(p))

\* no node on the way from the top level to p, p included, is an "if" node
NoIfDownTo(forest, p) ==
    \A k \in 1..Len(p) : NodeAt(forest, SubSeq(p, 1, k)).validator # "if"

\* the terminal nodes that can be reached without passing through an "if" node
ReachableLeafPositions(forest) ==
    {p \in Positions(forest) :
        NodeAt(forest, p).context = <<>> /\ NoIfDownTo(forest, p)}

PosLt(p, q) ==
    LET diff == {i \in 1..Min({Len(p), Len(q)}) : p[i] # q[i]}
    IN  IF diff = {} THEN Len(p) < Len(q) ELSE p[Min(diff)] < q[Min(diff)]

\* the positions of S in depth-first order
RECURSIVE InOrder(_)
InOrder(S) ==
    IF S = {} THEN <<>>
    ELSE LET first == CHOOSE p \in S : \A q \in S : q = p \/ PosLt(p, q)
         IN  <<first>> \o InOrder(S \ {first})

\* C1: leaf extraction never returns an "if" node nor a node with a non-empty
\* context, at whatever depth the "if" nodes and the combinators are nested
C1_LeavesAreTerminalNonIf ==
    Done => \A i \in 1..Len(all_leaves) :
                /\ all_leaves[i].validator # "if"
                /\ all_leaves[i].context = <<>>

\* an "if" node below a combinator, next to a leaf that is kept
C1_Witness ==
    /\ Done
    /\ all_leaves # <<>>
    /\ \E p \in Positions(errors) :
          /\ Len(p) = 2
          /\ NodeAt(errors, p).validator = "if"

\* the pair a leaf is reported under
PathAndMessage(leaf) == <<format_path(leaf), leaf.message>>

\* C2: after deduplication no two entries have the same (formatted path,
\* message), every pair of the leaf sequence has exactly one entry, and that
\* entry is the first leaf of the sequence that carries the pair
C2_DedupKeepsFirstOfEachPair ==
    Done =>
        /\ \A i, j \in 1..Len(unique_leaves) :
              PathAndMessage(unique_leaves[i]) = PathAndMessage(unique_leaves[j]) => i = j
        /\ \A i \in 1..Len(all_leaves) : \E j \in 1..Len(unique_leaves) :
              PathAndMessage(unique_leaves[j]) = PathAndMessage(all_leaves[i])
        /\ \A j \in 1..Len(unique_leaves) :
              LET same == {i \in 1..Len(all_leaves) :
                              PathAndMessage(all_leaves[i]) = PathAndMessage(unique_leaves[j])}
              IN  same # {} /\ unique_leaves[j] = all_leaves[Min(same)]

\* two different leaves carry the same pair and the first one is kept
C2_Witness ==
    /\ Done
    /\ \E i, j \in 1..Len(all_leaves) :
          /\ i < j
          /\ PathAndMessage(all_leaves[i]) = PathAndMessage(all_leaves[j])
          /\ all_leaves[i] # all_leaves[j]
          /\ \E k \in 1..Len(unique_leaves) : unique_leaves[k] = all_leaves[i]

\* the three conditions of a cascade effect, read off the leaf
NamesContainerPropInQuotes(message) ==
    \E p \in {"components", "layout", "languageButton"} :
        \E i \in 1..Len(message) :
            i + 2 <= Len(message) /\ SubSeq(message, i, i + 2) = <<"'", p, "'">>

IsContainerOrFieldset(instance) ==
    /\ instance.t = "dict"
    /\ \E i \in 1..Len(instance.v) :
          /\ instance.v[i].key = "type"
          /\ instance.v[i].val.t = "str"
          /\ instance.v[i].val.v \in {<<"container">>, <<"fieldset">>}

C3_WitnessOtherValidator ==
    /\ Done
    /\ \E k \in 1..Len(root_causes) :
          /\ root_causes[k].validator # "unevaluatedProperties"
          /\ IsContainerOrFieldset(root_causes[k].instance)
          /\ NamesContainerPropInQuotes(root_causes[k].message)

\* C4: the run reports "valid" with status 0 exactly when there is no
\* top-level error, and "invalid" with a non-zero status whenever there is
\* one, also when no root cause or no leaf at all remains
C4_InvalidIffTopLevelError ==
    Done =>
        /\ (out[1].kind = "valid" /\ exit_code = 0) <=> raw = <<>>
        /\ raw # <<>> => out[1].kind = "invalid" /\ exit_code # 0
        /\ \A i \in 2..Len(out) : out[i].kind \notin {"valid", "invalid"}

\* every leaf was reclassified as a cascade effect: no root cause remains
C4_Witness ==
    /\ Done
    /\ unique_leaves # <<>>
    /\ root_causes = <<>>
    /\ out[1].kind = "invalid"
    /\ exit_code = 1

\* every top-level error is an "if" node or has only "if" descendants
C4_WitnessNoLeaf ==
    /\ Done
    /\ Len(errors) = 2
    /\ all_leaves = <<>>
    /\ out[1].kind = "invalid"
    /\ exit_code = 1

\* the printed root-cause lines, in the order of printing
ErrorLines == SelectSeq(out, LAMBDA l : l.kind = "error")

\* C5: the root-cause lines are printed in descending lexicographic order of
\* their path sequences
C5_RootCausesDescending ==
    Done =>
        /\ ErrorLines = RootLines(root_causes)
        /\ \A i, j \in 1..Len(root_causes) :
              i < j => ~PathLt(root_causes[i].absolute_path, root_causes[j].absolute_path)

\* three root causes at three different places, found in ascending order
C5_Witness ==
    /\ Done
    /\ Len(root_causes) = 3
    /\ Len(cascades) = 0
    /\ PathLt(root_causes[3].absolute_path, root_causes[2].absolute_path)
    /\ PathLt(root_causes[2].absolute_path, root_causes[1].absolute_path)
    /\ all_leaves[1] = root_causes[3]

IsProperPrefix(a, b) == Len(a) < Len(b) /\ SubSeq(b, 1, Len(a)) = a

\* C6: with the verbose flag, the tree dump renders no "if" node and no
\* descendant of one, at any depth, the top level included, and renders every
\* other node of every top-level error
C6_DumpHasNoIfNode ==
    (Done /\ verbose) =>
        /\ \A i \in 1..Len(out) : out[i].kind = "tree" => out[i].validator # "if"
        /\ Len(SelectSeq(out, LAMBDA l : l.kind = "tree"))
              = Cardinality({p \in Positions(errors) : NoIfDownTo(errors, p)})

\* C7: one line per root cause and none for a cascade effect; the header
\* shows the number of root-cause lines; the cascade note is printed exactly
\* when there is a cascade effect and shows their number; both numbers add up
\* to the number of deduplicated leaves
C7_ReportCounts ==
    (Done /\ raw # <<>>) =>
        /\ ErrorLines = RootLines(root_causes)
        /\ \A i \in 1..Len(cascades) : \A k \in 1..Len(ErrorLines) :
              <<ErrorLines[k].path, ErrorLines[k].message>> # PathAndMessage(cascades[i])
        /\ out[1].kind = "invalid" /\ out[1].n = Len(ErrorLines)
        /\ LET notes == SelectSeq(out, LAMBDA l : l.kind = "cascade")
           IN  /\ Len(notes) = (IF cascades # <<>> THEN 1 ELSE 0)
               /\ \A i \in 1..Len(notes) : notes[i].n = Len(cascades)
        /\ Len(ErrorLines) + Len(cascades) = Len(unique_leaves)

\* a child's failure as root cause and one cascade effect on its container
C7_Witness ==
    /\ Done
    /\ Len(root_causes) = 1
    /\ Len(cascades) = 1
    /\ IsProperPrefix(cascades[1].absolute_path, root_causes[1].absolute_path)
    /\ \E i \in 1..Len(out) : out[i].kind = "cascade" /\ out[i].n = 1

\* C8: after the sort, a leaf whose path properly extends another leaf's path
\* stands before that leaf
C8_DeeperBeforeShallower ==
    Done => \A i, j \in 1..Len(unique_leaves) :
                IsProperPrefix(unique_leaves[j].absolute_path,
                               unique_leaves[i].absolute_path) => i < j

\* the container's error was collected before the error of its child
C8_Witness ==
    /\ Done
    /\ Len(all_leaves) = 2
    /\ Len(unique_leaves) = 2
    /\ IsProperPrefix(all_leaves[1].absolute_path, all_leaves[2].absolute_path)
    /\ unique_leaves[1] = all_leaves[2]

\* C9: the leaf sequence is exactly the sequence of terminal nodes reachable
\* from the top-level errors without passing through an "if" node, once per
\* occurrence, in top-level order and then depth-first child order
C9_LeafSequenceExact ==
    Done =>
        LET order == InOrder(ReachableLeafPositions(errors))
        IN  all_leaves = [i \in 1..Len(order) |-> NodeAt(errors, order[i])]

\* a combinator with a terminal child next to another top-level leaf
C9_Witness ==
    /\ Done
    /\ Len(errors) = 2
    /\ Len(all_leaves) = 2
    /\ errors[1].context # <<>>
    /\ all_leaves[1] = errors[1].context[1]
    /\ all_leaves[2] = errors[2]


(***************************************************************************)
(* Properties of the migration.                                            *)
(***************************************************************************)
\* C10: migration is idempotent: migrating a migrated document changes nothing
C10_MigrateIdempotent ==
    mpc = "twice" => JsonEq(remigrated, migrated)

====
